---- MODULE Spec2Model ----
(***************************************************************************)
(* Model of glue_jupyter/state_traitlets_helpers.py: the serializer        *)
(* state_to_dict, the patcher update_state_from_dict and the JSON hooks of *)
(* the GlueState trait.                                                    *)
(*                                                                         *)
(* Python values are tagged records:                                       *)
(*   Prim(v)              a str/number leaf, v its text                    *)
(*   CallbackList(items)  glue's CallbackList, items a sequence (item i of *)
(*                        the code is items[i+1])                          *)
(*   State(cls,id,attrs)  a glue State instance; id is its identity        *)
(*   Dict(keys,m)         a dict with str keys, keys in insertion order    *)
(*   IDict(ikeys,im)      a dict with int keys, ikeys in insertion order   *)
(*   Opaque(type,label)   a glue Data, Subset or ComponentID                *)
(*   Colormap(name)       a matplotlib Colormap                            *)
(***************************************************************************)
EXTENDS Integers, Sequences, FiniteSets, TLC

\* Longest CallbackList of an initial state.
MaxLen == 2
\* Most keys of one mapping of a change record.
MaxKeys == 2

MAGIC_IGNORE == "611cfa3b-ebb5-42d2-b5c7-ba9bce8b51a4"

Prim(v) == [k |-> "prim", v |-> v]
CallbackList(items) == [k |-> "list", items |-> items]
State(cls, id, attrs) == [k |-> "state", cls |-> cls, id |-> id, attrs |-> attrs]
Dict(keys, m) == [k |-> "dict", keys |-> keys, m |-> m]
IDict(ikeys, im) == [k |-> "idict", ikeys |-> ikeys, im |-> im]
Opaque(type, label) == [k |-> "opaque", type |-> type, label |-> label]
Colormap(name) == [k |-> "cmap", name |-> name]

Range(s) == {s[i] : i \in 1..Len(s)}

(***************************************************************************)
(* The host's State classes.  A "Viewer" holds two scalars, a CallbackList *)
(* of layers, a nested "Layer" state and a private property; a "Layer"     *)
(* holds two scalars and a private property; an "Image" holds a colormap,  *)
(* a reference to data and a nested "Layer".  as_dict stands for the       *)
(* methods that dir() also lists.                                          *)
(***************************************************************************)
\* Every attribute name of the model, in Python's string order (the order
\* dir() returns names in).
NameOrder ==
    <<"_hidden", "alpha", "as_dict", "cmap", "data", "layers", "limit", "mode", "nope",
      "size", "sub">>

CallbackProps(cls) ==
    CASE cls = "Viewer" -> {"_hidden", "layers", "limit", "mode", "sub"}
      [] cls = "Image" -> {"cmap", "data", "sub"}
      [] OTHER -> {"_hidden", "alpha", "size"}

ClassAttrs(cls) == CallbackProps(cls) \cup {"as_dict"}

\* The test left out: no name counts as private.
NoUnderscoreTest(name) == FALSE

\* name.startswith('_')
StartsWithUnderscore(name) == name \in {"_hidden"}

\* dir(state): the class's attributes and the instance's, sorted.
dir(state) ==
    SelectSeq(NameOrder, LAMBDA n : n \in ClassAttrs(state.cls) \cup DOMAIN state.attrs)

is_callback_property(state, name) == name \in CallbackProps(state.cls)

\* state._update_priority(name), as the host classes declare it.
UpdatePriority(state, name) ==
    IF state.cls = "Viewer"
    THEN CASE name = "mode" -> 2
           [] name = "layers" -> 1
           [] name = "limit" -> 1
           [] OTHER -> 0
    ELSE CASE name = "size" -> 1
           [] OTHER -> 0

getattr(state, name) == state.attrs[name]

setattr(state, name, value) ==
    [state EXCEPT !.attrs =
        [n \in (DOMAIN @) \cup {name} |-> IF n = name THEN value ELSE @[n]]]

(***************************************************************************)
(* state_to_dict                                                           *)
(***************************************************************************)
\* enumerate(item): the indices 0..n-1 in order.
Indices(n) == [i \in 1..n |-> i - 1]

RECURSIVE state_to_dict(_)

\* enumerate(item, 1): positions counted from one.
state_to_dict_from_one(state) ==
    LET names == SelectSeq(dir(state),
                     LAMBDA n : ~StartsWithUnderscore(n) /\ is_callback_property(state, n))
        conv(value) == IF value.k = "state" THEN state_to_dict(value) ELSE value
        item(n) ==
            LET v == getattr(state, n)
            IN  IF v.k = "list"
                THEN IDict([i \in 1..Len(v.items) |-> i],
                           [i \in 1..Len(v.items) |-> conv(v.items[i])])
                ELSE v
    IN  Dict(names, [n \in Range(names) |-> item(n)])

state_to_dict(state) ==
    LET names == SelectSeq(dir(state),
                     LAMBDA n : ~StartsWithUnderscore(n) /\ is_callback_property(state, n))
        conv(value) == IF value.k = "state" THEN state_to_dict(value) ELSE value
        item(n) ==
            LET v == getattr(state, n)
            IN  IF v.k = "list"
                THEN IDict(Indices(Len(v.items)),
                           [i \in 0..(Len(v.items) - 1) |-> conv(v.items[i + 1])])
                ELSE v
    IN  Dict(names, [n \in Range(names) |-> item(n)])

(***************************************************************************)
(* json.loads(json.dumps(..., cls=GlueStateJSONEncoder)): int keys become  *)
(* their decimal text; default() encodes a State met as a leaf by          *)
(* state_to_dict, a Data, Subset or ComponentID by the sentinel and a      *)
(* Colormap by its name.                                                   *)
(***************************************************************************)
Digits == <<"0", "1", "2", "3", "4", "5", "6", "7", "8", "9">>

\* str(i) for a one-digit index
IntToStr(i) == Digits[i + 1]

RECURSIVE json_roundtrip(_)

\* default() returning the label of a Data, Subset or ComponentID.
json_roundtrip_label(value) ==
    CASE value.k = "state" -> json_roundtrip(state_to_dict(value))
      [] value.k = "opaque" -> Prim(value.label)
      [] value.k = "cmap" -> Prim(value.name)
      [] value.k = "dict" ->
            Dict(value.keys, [n \in DOMAIN value.m |-> json_roundtrip(value.m[n])])
      [] value.k = "idict" ->
            Dict([j \in 1..Len(value.ikeys) |-> IntToStr(value.ikeys[j])],
                 [n \in {IntToStr(i) : i \in DOMAIN value.im} |->
                     json_roundtrip(value.im[CHOOSE i \in DOMAIN value.im : IntToStr(i) = n])])
      [] OTHER -> value

json_roundtrip(value) ==
    CASE value.k = "state" -> json_roundtrip(state_to_dict(value))
      [] value.k = "opaque" -> Prim(MAGIC_IGNORE)
      [] value.k = "cmap" -> Prim(value.name)
      [] value.k = "dict" ->
            Dict(value.keys, [n \in DOMAIN value.m |-> json_roundtrip(value.m[n])])
      [] value.k = "idict" ->
            Dict([j \in 1..Len(value.ikeys) |-> IntToStr(value.ikeys[j])],
                 [n \in {IntToStr(i) : i \in DOMAIN value.im} |->
                     json_roundtrip(value.im[CHOOSE i \in DOMAIN value.im : IntToStr(i) = n])])
      [] OTHER -> value

(***************************************************************************)
(* update_state_from_dict.  The result carries the mutated state, the log  *)
(* of the assignments made (in order, each with the object as the setter   *)
(* found it) and the exception raised, if any.                             *)
(***************************************************************************)
Assignment(state, name, idx, value) ==
    [obj |-> state.id, name |-> name, idx |-> idx, value |-> value, seen |-> state]

RECURSIVE SortedReverse(_)

\* sorted(groups): reverse=True left out.
RECURSIVE SortedForward(_)
SortedForward(S) ==
    IF S = {} THEN <<>>
    ELSE LET m == CHOOSE x \in S : \A y \in S : x <= y
         IN  <<m>> \o SortedForward(S \ {m})

\* sorted(groups, reverse=True)
SortedReverse(S) ==
    IF S = {} THEN <<>>
    ELSE LET m == CHOOSE x \in S : \A y \in S : y <= x
         IN  <<m>> \o SortedReverse(S \ {m})

\* The is_callback_property filter left out: every key is grouped.
Groups_unfiltered(state, changes) ==
    [p \in {UpdatePriority(state, n) : n \in Range(changes.keys)} |->
        SelectSeq(changes.keys, LAMBDA n : UpdatePriority(state, n) = p)]

\* groups: priority -> the recognized names of that priority, in the
\* record's iteration order.
Groups(state, changes) ==
    LET recognized == SelectSeq(changes.keys, LAMBDA n : is_callback_property(state, n))
    IN  [p \in {UpdatePriority(state, n) : n \in Range(recognized)} |->
            SelectSeq(recognized, LAMBDA n : UpdatePriority(state, n) = p)]

RECURSIVE Flatten(_, _)
Flatten(groups, priorities) ==
    IF priorities = <<>> THEN <<>>
    ELSE groups[Head(priorities)] \o Flatten(groups, Tail(priorities))

\* The host's properties whose setter validates the value.
Validated(cls) ==
    CASE cls = "Viewer" -> {"limit"}
      [] cls = "Layer" -> {"alpha"}
      [] OTHER -> {}

\* setattr(state, name, value) raising the setter's ValidationError.
Rejects(state, name, value) ==
    name \in Validated(state.cls) /\ value = Prim("bad")

\* The names in the order the two nested for-loops visit them.
ApplyOrder(state, changes) ==
    LET groups == Groups(state, changes)
    IN  Flatten(groups, SortedReverse(DOMAIN groups))

RECURSIVE update_state_from_dict(_, _)

\* State.update_from_dict of an item of a CallbackList: a method of glue's
\* State, taken to apply the patcher's algorithm to the item.
update_from_dict(self, properties) == update_state_from_dict(self, properties)

\* One turn of "for i in range(len(callback_list))".
patch_item(acc, name, c, i) ==
    IF acc.err # "none" THEN acc
    ELSE
    LET callback_list == getattr(acc.state, name)
        item == callback_list.items[i + 1]
        store(v) == setattr(acc.state, name,
                        CallbackList([callback_list.items EXCEPT ![i + 1] = v]))
    IN  IF c.k = "prim"
        THEN [acc EXCEPT !.err = "TypeError"]               \* i in <str>
        ELSE IF ~(c.k = "idict" /\ i \in DOMAIN c.im)
        THEN acc
        ELSE IF item.k = "state"
        THEN LET r == update_from_dict(item, c.im[i])
             IN  [state |-> store(r.state), log |-> acc.log \o r.log, err |-> r.err]
        ELSE [state |-> store(c.im[i]),
              log |-> Append(acc.log, Assignment(acc.state, name, i, c.im[i])),
              err |-> "none"]

RECURSIVE patch_items(_, _, _, _, _)

\* "for i in changes[name]": the loop runs over the record's indices, so
\* one past the end raises IndexError.
RECURSIVE patch_by_record(_, _, _, _, _)
patch_by_record(acc, name, c, ikeys, n) ==
    IF ikeys = <<>> \/ acc.err # "none" THEN acc
    ELSE IF Head(ikeys) >= n THEN [acc EXCEPT !.err = "IndexError"]
    ELSE patch_by_record(patch_item(acc, name, c, Head(ikeys)), name, c, Tail(ikeys), n)

patch_items_by_record(acc, name, c, i, n) ==
    IF c.k = "idict" THEN patch_by_record(acc, name, c, c.ikeys, n)
    ELSE IF n = 0 THEN acc
    ELSE [acc EXCEPT !.err = "TypeError"]

patch_items(acc, name, c, i, n) ==
    IF i >= n THEN acc
    ELSE patch_items(patch_item(acc, name, c, i), name, c, i + 1, n)

\* "if changes[name] == MAGIC_IGNORE": the sentinel test inverted.
patch_name_inverted(acc, name, changes) ==
    IF acc.err # "none" THEN acc
    ELSE IF name \notin DOMAIN acc.state.attrs
    THEN [acc EXCEPT !.err = "AttributeError"]
    ELSE
    LET live == getattr(acc.state, name)
        c == changes.m[name]
    IN  IF live.k = "list"
        THEN patch_items(acc, name, c, 0, Len(live.items))
        ELSE IF c = Prim(MAGIC_IGNORE)
        THEN [state |-> setattr(acc.state, name, c),
              log |-> Append(acc.log, Assignment(acc.state, name, -1, c)),
              err |-> "none"]
        ELSE acc

\* "try: setattr(...) except ValidationError: pass": a rejected value is
\* dropped and the loop goes on.
patch_name_swallow(acc, name, changes) ==
    IF acc.err # "none" THEN acc
    ELSE IF name \notin DOMAIN acc.state.attrs
    THEN [acc EXCEPT !.err = "AttributeError"]
    ELSE
    LET live == getattr(acc.state, name)
        c == changes.m[name]
    IN  IF live.k = "list"
        THEN patch_items(acc, name, c, 0, Len(live.items))
        ELSE IF c # Prim(MAGIC_IGNORE) /\ ~Rejects(acc.state, name, c)
        THEN [state |-> setattr(acc.state, name, c),
              log |-> Append(acc.log, Assignment(acc.state, name, -1, c)),
              err |-> "none"]
        ELSE acc

\* One turn of "for name in groups[priority]".
patch_name(acc, name, changes) ==
    IF acc.err # "none" THEN acc
    ELSE IF name \notin DOMAIN acc.state.attrs
    THEN [acc EXCEPT !.err = "AttributeError"]             \* getattr(state, name)
    ELSE
    LET live == getattr(acc.state, name)
        c == changes.m[name]
    IN  IF live.k = "list"
        THEN patch_items(acc, name, c, 0, Len(live.items))
        ELSE IF c # Prim(MAGIC_IGNORE)
        THEN IF Rejects(acc.state, name, c)
             THEN [acc EXCEPT !.err = "ValidationError"]   \* raised by setattr
             ELSE [state |-> setattr(acc.state, name, c),
                   log |-> Append(acc.log, Assignment(acc.state, name, -1, c)),
                   err |-> "none"]
        ELSE acc

RECURSIVE patch_names(_, _, _)
patch_names(acc, names, changes) ==
    IF names = <<>> THEN acc
    ELSE patch_names(patch_name(acc, Head(names), changes), Tail(names), changes)

\* "for name in dir(state): setattr(state, name, changes.get(name))": the
\* record taken as the whole state, absent keys reset to None.
update_state_from_dict_whole(state, changes) ==
    LET start == [state |-> state, log |-> <<>>, err |-> "none"]
        names == SelectSeq(dir(state), LAMBDA n : is_callback_property(state, n))
        whole == Dict(names, [n \in Range(names) |->
                                IF changes.k = "dict" /\ n \in DOMAIN changes.m
                                THEN changes.m[n] ELSE Prim("None")])
    IN  IF changes.k = "dict" /\ Len(changes.keys) > 0
        THEN patch_names(start, names, whole)
        ELSE start

\* The same without the test of an empty record.
update_state_from_dict_reset(state, changes) ==
    LET start == [state |-> state, log |-> <<>>, err |-> "none"]
        names == SelectSeq(dir(state), LAMBDA n : is_callback_property(state, n))
        whole == Dict(names, [n \in Range(names) |->
                                IF changes.k = "dict" /\ n \in DOMAIN changes.m
                                THEN changes.m[n] ELSE Prim("None")])
    IN  IF changes.k = "dict" THEN patch_names(start, names, whole) ELSE start

update_state_from_dict(state, changes) ==
    LET start == [state |-> state, log |-> <<>>, err |-> "none"]
    IN  CASE changes.k = "dict" ->
                IF Len(changes.keys) = 0 THEN start
                ELSE patch_names(start, ApplyOrder(state, changes), changes)
          [] changes.k = "idict" ->
                \* an int is no attribute name
                IF Len(changes.ikeys) = 0 THEN start
                ELSE [start EXCEPT !.err = "TypeError"]
          [] OTHER -> start    \* a str: its characters name no property

(***************************************************************************)
(* The states a host builds, and the change records it hands over.         *)
(***************************************************************************)
None == Prim("None")

LayerState(id, hidden, alpha, size) ==
    State("Layer", id,
          ("_hidden" :> Prim(hidden)) @@ ("alpha" :> Prim(alpha)) @@ ("size" :> Prim(size)))

\* A CallbackList of n items: scalars only, Layers only, or Layers at the
\* odd places and scalars at the even ones.
ListOf(n, pattern) ==
    [j \in 1..n |->
        IF pattern = "states" \/ (pattern = "mixed" /\ j % 2 = 1)
        THEN LayerState(1 + j, "0", "0", "0")
        ELSE Prim("0")]

Lists == {ListOf(n, pattern) : n \in 0..MaxLen, pattern \in {"prims", "states", "mixed"}}

ViewerState(items) ==
    State("Viewer", 0,
          ("_hidden" :> Prim("0")) @@ ("layers" :> CallbackList(items)) @@
          ("limit" :> Prim("0")) @@ ("mode" :> Prim("0")) @@
          ("sub" :> LayerState(1, "0", "0", "0")))

\* An Image: a Colormap, a reference of the given type, and a Layer whose
\* size is a scalar or a ComponentID.
ImageState(type, att) ==
    State("Image", 0,
          ("cmap" :> Colormap("viridis")) @@ ("data" :> Opaque(type, "d1")) @@
          ("sub" :> setattr(LayerState(1, "0", "0", "0"), "size", att)))

ImageStates ==
    {ImageState(type, att) : type \in {"Data", "Subset", "ComponentID"},
                             att \in {Prim("0"), Opaque("ComponentID", "x")}}

InitStates ==
    {ViewerState(l) : l \in Lists} \cup
    {LayerState(0, h, a, s) : h \in {"0", "1"}, a \in {"0", "1"}, s \in {"0", "1", MAGIC_IGNORE}}
    \cup ImageStates

\* A freshly constructed state of the class of state.
Fresh(state) ==
    IF state.cls = "Viewer" THEN ViewerState(<<>>) ELSE LayerState(0, "0", "0", "0")

\* Sub-records sent for a Layer.
NestedRecords ==
    { Dict(<<"size">>, "size" :> Prim(MAGIC_IGNORE)),
      Dict(<<"alpha", "size">>, ("alpha" :> Prim("1")) @@ ("size" :> Prim("1"))),
      Dict(<<"nope", "alpha">>, ("nope" :> Prim("1")) @@ ("alpha" :> Prim("1"))) }

\* What a record may carry for index i of a live CallbackList.
ItemValues(live, i) ==
    IF i >= Len(live.items) THEN {Prim("1")}
    ELSE IF live.items[i + 1].k = "state" THEN NestedRecords
    ELSE {Prim("1"), Prim(MAGIC_IGNORE)}

RECURSIVE IDictsOver(_, _)
IDictsOver(live, ikeys) ==
    IF ikeys = <<>> THEN {[i \in {} |-> None]}
    ELSE {(Head(ikeys) :> v) @@ im :
            v \in ItemValues(live, Head(ikeys)), im \in IDictsOver(live, Tail(ikeys))}

\* The indices of S in ascending order.
RECURSIVE Ascending(_)
Ascending(S) ==
    IF S = {} THEN <<>>
    ELSE LET m == CHOOSE x \in S : \A y \in S : x <= y
         IN  <<m>> \o Ascending(S \ {m})

\* Sparse sub-mappings for a live CallbackList: up to MaxKeys indices, one
\* of them possibly past the end.
ListChanges(live) ==
    UNION {{IDict(ikeys, im) : im \in IDictsOver(live, ikeys)} :
           ikeys \in {Ascending(S) :
                        S \in {T \in SUBSET (0..Len(live.items)) : Cardinality(T) <= MaxKeys}}}

KeysFor(state) == CallbackProps(state.cls) \cup {"nope"}

ValuesFor(state, name) ==
    IF ~is_callback_property(state, name) THEN {Prim("1")}
    ELSE LET live == getattr(state, name)
         IN  CASE live.k = "list" -> {Prim(MAGIC_IGNORE)} \cup ListChanges(live)
               [] live.k = "state" -> {Prim(MAGIC_IGNORE)} \cup NestedRecords
               [] OTHER -> {Prim("1"), Prim(MAGIC_IGNORE)} \cup
                           (IF name \in Validated(state.cls) THEN {Prim("bad")} ELSE {})

RECURSIVE MapsOver(_, _)
MapsOver(state, names) ==
    IF names = <<>> THEN {[n \in {} |-> None]}
    ELSE {(Head(names) :> v) @@ m :
            v \in ValuesFor(state, Head(names)), m \in MapsOver(state, Tail(names))}

KeySeqs(K) ==
    UNION {{s \in [1..n -> K] : \A i, j \in 1..n : s[i] = s[j] => i = j} : n \in 0..MaxKeys}

\* Change records in the Python shape (int indices), every insertion order.
DictChanges(state) ==
    UNION {{Dict(keys, m) : m \in MapsOver(state, keys)} : keys \in KeySeqs(KeysFor(state))}

\* The same records as they come off the wire.
JsonChanges(state) == {json_roundtrip(c) : c \in DictChanges(state)}

(***************************************************************************)
(* The state machine: state is the live State object of the widget's       *)
(* trait, last the most recent call and what it did; sync is the widget    *)
(* seen from the trait's set and on_state_change (further down).           *)
(***************************************************************************)
VARIABLES state, last, sync

vars == <<state, last, sync>>

\* A reference to a State object, by identity.
Ref(id) == [k |-> "ref", id |-> id]

\* GlueState.on_state_change: the Bunch handed to obj.notify_change, slot
\* being self.get(obj).
on_state_change(slot) ==
    [name |-> "state", type |-> "change", value |-> slot, new |-> slot]

\* An assignment of the log changed the value it replaced.
Changed(e) ==
    IF e.idx = -1 THEN getattr(e.seen, e.name) # e.value
    ELSE getattr(e.seen, e.name).items[e.idx + 1] # e.value

\* The notifications of a patch of the state held by the trait, on which
\* GlueState.set registered one global callback: the callback runs once
\* for every change in the state's tree.
RECURSIVE Fired(_, _)
Fired(log, slot) ==
    IF log = <<>> THEN <<>>
    ELSE (IF Changed(Head(log)) THEN <<on_state_change(slot)>> ELSE <<>>)
         \o Fired(Tail(log), slot)

\* The outcome of a patch of the state held by the trait.
Tracked(r, id) == [log |-> r.log, err |-> r.err, notes |-> Fired(r.log, Ref(id))]

\* The outcome of a patch of a state no trait holds.
Untracked(r) == [log |-> r.log, err |-> r.err, notes |-> <<>>]

Call(op, before, changes, r, result) ==
    [op |-> op, before |-> before, changes |-> changes,
     log |-> r.log, err |-> r.err, notes |-> r.notes, result |-> result]

NoEffect == [log |-> <<>>, err |-> "none", notes |-> <<>>]

\* The hook rebuilds the state: what it returns is a new object.
update_state_from_json_copy(obj, json) ==
    LET r == update_state_from_dict(obj, json)
    IN  [state |-> r.state, log |-> r.log, err |-> r.err,
         result |-> IF r.err = "none" THEN [r.state EXCEPT !.id = @ + 100] ELSE None]

\* GlueState.convert_state_to_json(state, widget), obj being the state.
convert_state_to_json(obj) ==
    IF obj = None THEN Dict(<<>>, <<>>)
    ELSE json_roundtrip(state_to_dict(obj))

\* GlueState.update_state_from_json(json, widget), obj being the state
\* read by getattr(widget, self.name): the patched state and the value
\* returned.
update_state_from_json(obj, json) ==
    LET r == update_state_from_dict(obj, json)
    IN  [state |-> r.state, log |-> r.log, err |-> r.err,
         result |-> IF r.err = "none" THEN r.state ELSE None]

(***************************************************************************)
(* The trait as a tracked slot: validate, set and on_state_change.  A      *)
(* widget is its slot (None or a reference to a State) and, for every host *)
(* State object, the number of callbacks partial(self.on_state_change,     *)
(* obj=obj) registered on it.                                              *)
(***************************************************************************)
\* Most assignments to the slot in one run.
MaxSets == 3

\* The host's State objects that get assigned, by identity.
Objects == {1, 2}

\* What a host may assign: None, a State, or something else.
SlotValues == {None} \cup {Ref(i) : i \in Objects} \cup {Prim("5")}

\* validate letting every value through.
validate_any(value) == "none"

\* GlueState.validate: the exception raised, if any.
validate(value) ==
    IF value = None \/ value.k = "ref" THEN "none" ELSE "TraitError"

\* traitlets' set alone: set is not overridden, nothing is registered.
set_plain(w, value) ==
    IF validate(value) # "none"
    THEN [slot |-> w.slot, callbacks |-> w.callbacks, err |-> validate(value)]
    ELSE [slot |-> value, callbacks |-> w.callbacks, err |-> "none"]

\* GlueState.set(obj, state): super().set validates and stores the value,
\* then state.add_global_callback registers a new callback.
set(w, value) ==
    IF validate(value) # "none"
    THEN [slot |-> w.slot, callbacks |-> w.callbacks, err |-> validate(value)]
    ELSE IF value.k # "ref"
    THEN [slot |-> value, callbacks |-> w.callbacks, err |-> "AttributeError"]
    ELSE [slot |-> value,
          callbacks |-> [w.callbacks EXCEPT ![value.id] = @ + 1],
          err |-> "none"]

\* The callback carrying the object it was registered on.
run_callbacks_bound(w, i) == [c \in 1..w.callbacks[i] |-> on_state_change(Ref(i))]

\* A change of object i runs each callback registered on it; each reads
\* self.get(obj), the slot as it is now.
run_callbacks(w, i) == [c \in 1..w.callbacks[i] |-> on_state_change(w.slot)]

SyncStart ==
    [slot |-> None,
     objs |-> [i \in Objects |-> LayerState(i, "0", "0", "0")],
     callbacks |-> [i \in Objects |-> 0],
     assigned |-> {},
     nsets |-> 0,
     op |-> "none", arg |-> None, before |-> None,
     cbefore |-> [i \in Objects |-> 0],
     err |-> "none", notes |-> <<>>]

Init ==
    /\ state \in InitStates
    /\ last = Call("none", None, None, NoEffect, None)
    /\ sync = SyncStart

\* update_state_from_dict(state, changes)
UpdateStateFromDict ==
    /\ last.op = "none"
    /\ \E changes \in DictChanges(state) :
         LET r == update_state_from_dict(state, changes)
         IN  /\ state' = r.state
             /\ last' = Call("update_state_from_dict", state, changes,
                             Tracked(r, state.id), None)
    /\ UNCHANGED sync

\* GlueState.update_state_from_json(json, widget)
UpdateStateFromJson ==
    /\ last.op = "none"
    /\ \E json \in JsonChanges(state) :
         LET r == update_state_from_json(state, json)
         IN  /\ state' = r.state
             /\ last' = Call("update_state_from_json", state, json,
                             Tracked(r, state.id), r.result)
    /\ UNCHANGED sync

\* state_to_dict(state)
StateToDict ==
    /\ last.op \in {"none", "update_state_from_dict", "update_state_from_json"}
    /\ last' = Call("state_to_dict", state, None, NoEffect, state_to_dict(state))
    /\ UNCHANGED <<state, sync>>

\* GlueState.convert_state_to_json(state, widget)
ConvertStateToJson ==
    /\ last.op \in {"none", "update_state_from_dict", "update_state_from_json"}
    /\ last' = Call("convert_state_to_json", state, None, NoEffect,
                    convert_state_to_json(state))
    /\ UNCHANGED <<state, sync>>

AllPrimitive(s) == \A n \in CallbackProps(s.cls) : getattr(s, n).k = "prim"

\* update_state_from_dict(fresh, state_to_dict(state)) on a fresh state of
\* the same class.
RoundTrip ==
    /\ last.op = "none"
    /\ AllPrimitive(state)
    /\ LET record == state_to_dict(state)
           r == update_state_from_dict(Fresh(state), record)
       IN  last' = Call("round_trip", Fresh(state), record, Untracked(r), r.state)
    /\ UNCHANGED <<state, sync>>

Next ==
    \/ UpdateStateFromDict
    \/ UpdateStateFromJson
    \/ StateToDict
    \/ ConvertStateToJson
    \/ RoundTrip

Spec == Init /\ [][Next]_vars

(***************************************************************************)
(* The slot's state machine: the host assigns to the slot and changes      *)
(* properties of its State objects.                                        *)
(***************************************************************************)
InitSync ==
    /\ state = LayerState(0, "0", "0", "0")
    /\ last = Call("none", None, None, NoEffect, None)
    /\ sync = SyncStart

\* widget.state = value
Set ==
    /\ sync.nsets < MaxSets
    /\ \E value \in SlotValues :
         LET r == set(sync, value)
         IN  sync' = [sync EXCEPT !.slot = r.slot,
                                  !.callbacks = r.callbacks,
                                  !.assigned = IF r.err = "none" /\ value.k = "ref"
                                               THEN @ \cup {value.id} ELSE @,
                                  !.nsets = @ + 1,
                                  !.op = "set", !.arg = value,
                                  !.before = sync.slot, !.cbefore = sync.callbacks,
                                  !.err = r.err, !.notes = <<>>]
    /\ UNCHANGED <<state, last>>

\* The host changes a property of one of its State objects; glue runs the
\* object's global callbacks.
Mutate ==
    /\ \E i \in Objects, name \in {"alpha", "size"}, v \in {"0", "1"} :
         /\ getattr(sync.objs[i], name) # Prim(v)
         /\ sync' = [sync EXCEPT !.objs[i] = setattr(@, name, Prim(v)),
                                  !.op = "mutate", !.arg = Ref(i),
                                  !.before = sync.slot, !.cbefore = sync.callbacks,
                                  !.err = "none", !.notes = run_callbacks(sync, i)]
    /\ UNCHANGED <<state, last>>

NextSync ==
    \/ Set
    \/ Mutate

SpecSync == InitSync /\ [][NextSync]_vars

(***************************************************************************)
(* Properties of the patcher.                                              *)
(***************************************************************************)
PatchOps == {"update_state_from_dict", "update_state_from_json"}

Sentinel == Prim(MAGIC_IGNORE)

\* The keys of the last record that the patched state recognizes.
Recognized == Range(last.changes.keys) \cap CallbackProps(last.before.cls)

Priority(n) == UpdatePriority(last.before, n)

\* C1: the assignments of one patch are made in descending priority order,
\* whatever the record's insertion order: when the setter of a key runs,
\* every recognized key of higher priority already has its final value (the
\* incoming one, for a scalar that is not the sentinel), and no assignment
\* follows one of lower priority.
C1_PriorityOrder ==
    last.op \in PatchOps =>
        \A j \in 1..Len(last.log) :
            LET e == last.log[j]
            IN  e.obj = last.before.id =>
                  /\ \A p \in Recognized :
                        Priority(p) > Priority(e.name) =>
                          /\ getattr(e.seen, p) = getattr(state, p)
                          /\ (getattr(last.before, p).k # "list" /\ last.changes.m[p] # Sentinel)
                                => getattr(e.seen, p) = last.changes.m[p]
                  /\ \A i \in 1..(j - 1) :
                        last.log[i].obj = last.before.id =>
                            Priority(last.log[i].name) >= Priority(e.name)

\* A record that names the low-priority "limit" before the high-priority
\* "mode" has had "mode" assigned first.
C1_Witness ==
    /\ last.op \in PatchOps
    /\ last.changes.keys = <<"limit", "mode">>
    /\ Len(last.log) = 2
    /\ last.log[1].name = "mode"
    /\ last.log[2].name = "limit"
    /\ getattr(last.log[2].seen, "mode") = Prim("1")

\* The live places (property, or item of a collection, or property of a
\* Layer item) that hold the sentinel.
SentinelPlaces(s) ==
    {<<n, -1, "">> : n \in {m \in DOMAIN s.attrs : s.attrs[m] = Sentinel}} \cup
    UNION {LET v == s.attrs[n]
           IN  IF v.k # "list" THEN {}
               ELSE UNION {LET it == v.items[i]
                           IN  IF it = Sentinel THEN {<<n, i, "">>}
                               ELSE IF it.k # "state" THEN {}
                               ELSE {<<n, i, a>> : a \in {b \in DOMAIN it.attrs : it.attrs[b] = Sentinel}}
                           : i \in 1..Len(v.items)}
           : n \in DOMAIN s.attrs}

\* The record of the last patch carries the sentinel somewhere.
CarriesSentinel ==
    \E n \in Recognized :
        LET c == last.changes.m[n]
        IN  \/ c = Sentinel
            \/ /\ c.k = "idict"
               /\ \E i \in DOMAIN c.im :
                    \/ c.im[i] = Sentinel
                    \/ c.im[i].k = "dict" /\ \E a \in DOMAIN c.im[i].m : c.im[i].m[a] = Sentinel

\* C2: the sentinel is inert on patch-back: wherever the record carries it
\* (scalar property, collection property, item of a collection, property
\* of a Layer item) the live value stays as it was, no live place newly
\* holds the sentinel, and no error is raised.
C2_SentinelInert ==
    (last.op = "update_state_from_dict" /\ CarriesSentinel) =>
        /\ last.err = "none"
        /\ SentinelPlaces(state) \subseteq SentinelPlaces(last.before)
        /\ \A n \in Recognized :
              LET c == last.changes.m[n]
                  old == getattr(last.before, n)
                  new == getattr(state, n)
              IN  /\ c = Sentinel => new = old
                  /\ (c.k = "idict" /\ old.k = "list") =>
                        \A i \in DOMAIN c.im :
                            i < Len(old.items) =>
                              /\ c.im[i] = Sentinel => new.items[i + 1] = old.items[i + 1]
                              /\ (c.im[i].k = "dict" /\ old.items[i + 1].k = "state") =>
                                    \A a \in DOMAIN c.im[i].m :
                                        (c.im[i].m[a] = Sentinel /\ a \in DOMAIN old.items[i + 1].attrs)
                                            => new.items[i + 1].attrs[a] = old.items[i + 1].attrs[a]

\* C3: a patch leaves every observable property that is not a key of the
\* record as it was, contents included.
C3_AbsentKeysUntouched ==
    last.op \in PatchOps =>
        /\ DOMAIN state.attrs = DOMAIN last.before.attrs
        /\ \A n \in CallbackProps(last.before.cls) \ Range(last.changes.keys) :
              getattr(state, n) = getattr(last.before, n)

\* A patch that assigned something while the record left "limit" and "sub"
\* out.
C3_Witness ==
    /\ last.op \in PatchOps
    /\ last.before.cls = "Viewer"
    /\ Len(last.log) > 0
    /\ state # last.before
    /\ {"limit", "sub"} \cap Range(last.changes.keys) = {}

\* C4: a sparse sub-mapping for a live collection changes only the items
\* whose index it names, skips an index past the end without error, and
\* keeps the collection's length.
C4_SparseCollectionPatch ==
    last.op = "update_state_from_dict" =>
        \A n \in Recognized :
            LET c == last.changes.m[n]
                old == getattr(last.before, n)
                new == getattr(state, n)
            IN  (old.k = "list" /\ c.k = "idict") =>
                  /\ new.k = "list"
                  /\ Len(new.items) = Len(old.items)
                  /\ \A i \in 0..(Len(old.items) - 1) :
                        i \notin DOMAIN c.im => new.items[i + 1] = old.items[i + 1]
                  /\ \/ last.err = "none"
                     \/ /\ last.err = "ValidationError"
                        /\ \E m \in Recognized : Rejects(last.before, m, last.changes.m[m])

\* A two-item collection patched with {0: ..., 2: ...}: item 0 changed,
\* item 1 not named, index 2 past the end.
C4_Witness ==
    /\ last.op = "update_state_from_dict"
    /\ "layers" \in Recognized
    /\ last.changes.m["layers"].k = "idict"
    /\ DOMAIN last.changes.m["layers"].im = {0, 2}
    /\ Len(getattr(last.before, "layers").items) = 2
    /\ getattr(state, "layers").items[1] # getattr(last.before, "layers").items[1]
    /\ last.err = "none"

\* What update_state_from_dict is to make of a live item given the value
\* sent for it.
Patched(item, value) ==
    IF item.k = "state" THEN update_state_from_dict(item, value).state
    ELSE IF value = Sentinel THEN item
    ELSE value

\* C5: a record in the JSON wire shape, whose collection-valued property is
\* an object keyed by "0", "1", ..., updates the live item at every index
\* it names that exists.
C5_JsonShapePatchesItems ==
    last.op = "update_state_from_json" =>
        \A n \in Recognized :
            LET c == last.changes.m[n]
                old == getattr(last.before, n)
                new == getattr(state, n)
            IN  (old.k = "list" /\ c.k = "dict") =>
                    \A i \in 0..(Len(old.items) - 1) :
                        IntToStr(i) \in DOMAIN c.m =>
                            new.items[i + 1] = Patched(old.items[i + 1], c.m[IntToStr(i)])

\* C6: a nested state held directly by a property is patched in place by
\* the sub-record sent for it: the property keeps the same state object,
\* with the sub-record applied.
C6_NestedStateKept ==
    last.op \in PatchOps =>
        \A n \in Recognized :
            LET c == last.changes.m[n]
                old == getattr(last.before, n)
                new == getattr(state, n)
            IN  (old.k = "state" /\ c.k = "dict" /\ last.err = "none") =>
                  /\ new.k = "state"
                  /\ new.id = old.id
                  /\ new = update_state_from_dict(old, c).state

(***************************************************************************)
(* Properties of the serializer and of the round trip.                     *)
(***************************************************************************)
\* C7 as stated: after the round trip every observable property of the
\* fresh state equals the original's.
C7_RoundTripAll ==
    last.op = "round_trip" =>
        \A n \in CallbackProps(state.cls) : getattr(last.result, n) = getattr(state, n)

\* C7: after the round trip every observable property of the fresh state
\* whose name does not start with an underscore, and whose original value
\* is not the sentinel string, equals the original's.
C7_RoundTripPublic ==
    last.op = "round_trip" =>
        /\ last.err = "none"
        /\ \A n \in CallbackProps(state.cls) \ {"_hidden"} :
              getattr(state, n) # Sentinel => getattr(last.result, n) = getattr(state, n)

\* A round trip that carried values differing from the fresh state's.
C7_Witness ==
    /\ last.op = "round_trip"
    /\ getattr(state, "size") = Prim("1")
    /\ getattr(state, "alpha") = Prim("1")
    /\ getattr(last.before, "size") = Prim("0")
    /\ getattr(last.result, "size") = Prim("1")
    /\ getattr(last.result, "alpha") = Prim("1")

\* C8: the keys of state_to_dict(state) are exactly the observable property
\* names of the state that do not start with an underscore.
C8_KeysAreThePublicProperties ==
    last.op = "state_to_dict" =>
        /\ last.result.k = "dict"
        /\ Range(last.result.keys) = CallbackProps(last.before.cls) \ {"_hidden"}
        /\ DOMAIN last.result.m = Range(last.result.keys)
        /\ \A i, j \in 1..Len(last.result.keys) :
              last.result.keys[i] = last.result.keys[j] => i = j

\* A Viewer, which has a private observable property and a method, was
\* serialized.
C8_Witness ==
    /\ last.op = "state_to_dict"
    /\ last.before.cls = "Viewer"
    /\ "_hidden" \in DOMAIN last.before.attrs
    /\ "as_dict" \in Range(dir(last.before))
    /\ "mode" \in Range(last.result.keys)

\* The public observable properties of a Layer item, by name.
LayerPublic == {"alpha", "size"}

\* C9: a collection of n items serializes to a mapping whose keys are the
\* positions 0..n-1, position i carrying the serialization of item i when
\* it is a state and the item itself otherwise; an empty collection gives
\* the empty mapping under its key.
C9_CollectionByPosition ==
    last.op = "state_to_dict" =>
        \A n \in CallbackProps(last.before.cls) \ {"_hidden"} :
            LET v == getattr(last.before, n)
            IN  v.k = "list" =>
                  /\ n \in DOMAIN last.result.m
                  /\ last.result.m[n].k = "idict"
                  /\ DOMAIN last.result.m[n].im = 0..(Len(v.items) - 1)
                  /\ last.result.m[n].ikeys = [j \in 1..Len(v.items) |-> j - 1]
                  /\ \A i \in 0..(Len(v.items) - 1) :
                        LET it == v.items[i + 1]
                            out == last.result.m[n].im[i]
                        IN  IF it.k = "state"
                            THEN /\ out.k = "dict"
                                 /\ DOMAIN out.m = LayerPublic
                                 /\ \A a \in LayerPublic : out.m[a] = getattr(it, a)
                            ELSE out = it

\* A collection holding a Layer and a scalar was serialized.
C9_Witness ==
    /\ last.op = "state_to_dict"
    /\ last.before.cls = "Viewer"
    /\ Len(getattr(last.before, "layers").items) = 2
    /\ getattr(last.before, "layers").items[1].k = "state"
    /\ getattr(last.before, "layers").items[2].k = "prim"
    /\ last.result.m["layers"].im[0].k = "dict"

\* An empty collection was serialized to the empty mapping.
C9_EmptyWitness ==
    /\ last.op = "state_to_dict"
    /\ last.before.cls = "Viewer"
    /\ getattr(last.before, "layers").items = <<>>
    /\ last.result.m["layers"] = IDict(<<>>, <<>>)

\* The last record without the keys the state does not recognize.
RecognizedOnly ==
    LET keys == SelectSeq(last.changes.keys, LAMBDA n : n \in Recognized)
    IN  Dict(keys, [n \in Range(keys) |-> last.changes.m[n]])

\* C10: keys the state does not recognize create no attribute and change
\* nothing of what the patch does: state, assignments and error are those
\* of the same record without these keys.
C10_UnknownKeysIgnored ==
    last.op \in PatchOps =>
        /\ DOMAIN state.attrs = DOMAIN last.before.attrs
        /\ LET r == update_state_from_dict(last.before, RecognizedOnly)
           IN  /\ r.state = state
               /\ r.log = last.log
               /\ r.err = last.err
        /\ Recognized = {} => (state = last.before /\ last.err = "none")

\* A record with the unknown key "nope" first and a recognized key after
\* it, which was assigned.
C10_Witness ==
    /\ last.op \in PatchOps
    /\ Len(last.changes.keys) = 2
    /\ last.changes.keys[1] = "nope"
    /\ last.changes.keys[2] = "mode"
    /\ getattr(state, "mode") = Prim("1")
    /\ getattr(last.before, "mode") = Prim("0")
    /\ last.err = "none"

(***************************************************************************)
(* Properties of the hooks of the trait.                                   *)
(***************************************************************************)
\* C11: a patch with the empty record assigns nothing, changes nothing,
\* raises nothing and fires no notification of the trait's callback.
C11_EmptyPatchIsNoOp ==
    (last.op \in PatchOps /\ Len(last.changes.keys) = 0) =>
        /\ last.log = <<>>
        /\ state = last.before
        /\ last.notes = <<>>
        /\ last.err = "none"

\* The empty record was sent to a Viewer with a two-item collection.
C11_Witness ==
    /\ last.op \in PatchOps
    /\ last.changes = Dict(<<>>, <<>>)
    /\ last.before.cls = "Viewer"
    /\ Len(getattr(state, "layers").items) = 2

\* A patch that does assign is notified: the callback is registered.
C11_NotifiedWitness ==
    /\ last.op \in PatchOps
    /\ Len(last.changes.keys) = 1
    /\ Len(last.log) = 1
    /\ last.notes = <<on_state_change(Ref(state.id))>>

\* C16: update_state_from_json patches the state the trait holds and
\* returns that very object: same identity as before the call, the live
\* object with the record applied, and the trait's value is not replaced.
C16_SameObjectReturned ==
    (last.op = "update_state_from_json" /\ last.err = "none") =>
        /\ last.result.k = "state"
        /\ last.result.id = last.before.id
        /\ state.id = last.before.id
        /\ last.result = state
        /\ state = update_state_from_dict(last.before, last.changes).state

\* A record that changed "mode" came back as the same object, changed.
C16_Witness ==
    /\ last.op = "update_state_from_json"
    /\ last.err = "none"
    /\ last.before.cls = "Viewer"
    /\ getattr(last.before, "mode") = Prim("0")
    /\ getattr(last.result, "mode") = Prim("1")
    /\ last.result.id = last.before.id

\* What the encoder makes of a leaf value.
Encoded(v) ==
    CASE v.k = "opaque" -> Sentinel
      [] v.k = "cmap" -> Prim(v.name)
      [] OTHER -> v

\* C12: in the output of convert_state_to_json every reference-only value
\* (Data, Subset, ComponentID) is the sentinel string, every Colormap its
\* name, every nested state its full serialization (its own leaves encoded
\* the same way), and the live state is as it was.
C12_EncodedLeaves ==
    last.op = "convert_state_to_json" =>
        /\ state = last.before
        /\ last.result.k = "dict"
        /\ \A n \in CallbackProps(last.before.cls) \ {"_hidden"} :
              LET v == getattr(last.before, n)
                  out == last.result.m[n]
              IN  /\ v.k = "opaque" => out = Prim(MAGIC_IGNORE)
                  /\ v.k = "cmap" => out = Prim(v.name)
                  /\ v.k = "state" =>
                        /\ out.k = "dict"
                        /\ DOMAIN out.m = CallbackProps(v.cls) \ {"_hidden"}
                        /\ \A a \in DOMAIN out.m : out.m[a] = Encoded(getattr(v, a))

\* An Image holding a Subset, a Colormap and a Layer whose size is a
\* ComponentID was converted.
C12_Witness ==
    /\ last.op = "convert_state_to_json"
    /\ state.cls = "Image"
    /\ getattr(state, "data") = Opaque("Subset", "d1")
    /\ getattr(state, "cmap") = Colormap("viridis")
    /\ getattr(getattr(state, "sub"), "size") = Opaque("ComponentID", "x")
    /\ last.result.m["data"] = Prim(MAGIC_IGNORE)
    /\ last.result.m["cmap"] = Prim("viridis")
    /\ last.result.m["sub"].m["size"] = Prim(MAGIC_IGNORE)

\* The recognized keys of the last record in the order they are visited.
VisitOrder == ApplyOrder(last.before, last.changes)

\* The places in VisitOrder whose value the host's setter rejects.
RejectedAt ==
    {p \in 1..Len(VisitOrder) :
        Rejects(last.before, VisitOrder[p], last.changes.m[VisitOrder[p]])}

\* A key visited before place p raises an error of its own (a scalar sent
\* for a collection that has items).
RaisesBefore(p) ==
    \E q \in 1..(p - 1) :
        /\ getattr(last.before, VisitOrder[q]).k = "list"
        /\ Len(getattr(last.before, VisitOrder[q]).items) > 0
        /\ last.changes.m[VisitOrder[q]].k = "prim"

\* C19: when the host's setter rejects a value, the error reaches the
\* caller; no key visited after the failing one (same or lower priority
\* group) is assigned, and every assignment made before the failure keeps
\* its new value.
C19_RejectionAborts ==
    (last.op \in PatchOps /\ last.changes.k = "dict" /\ RejectedAt # {}) =>
        LET p == CHOOSE x \in RejectedAt : \A y \in RejectedAt : x <= y
        IN  /\ last.err # "none"
            /\ ~RaisesBefore(p) => last.err = "ValidationError"
            /\ last.err = "ValidationError" =>
                  /\ \A q \in p..Len(VisitOrder) :
                        getattr(state, VisitOrder[q]) = getattr(last.before, VisitOrder[q])
                  /\ \A q \in 1..(p - 1) :
                        LET n == VisitOrder[q]
                        IN  (getattr(last.before, n).k # "list" /\ last.changes.m[n] # Sentinel)
                                => getattr(state, n) = last.changes.m[n]
                  /\ \A j \in 1..Len(last.log) :
                        LET e == last.log[j]
                        IN  e.obj = last.before.id =>
                              IF e.idx = -1
                              THEN getattr(state, e.name) = e.value
                              ELSE getattr(state, e.name).items[e.idx + 1] = e.value

\* "mode" (priority 2) was assigned, then "limit" (priority 1) rejected:
\* the error is out and "mode" keeps its new value.
C19_Witness ==
    /\ last.op = "update_state_from_dict"
    /\ last.changes.keys = <<"limit", "mode">>
    /\ last.changes.m["limit"] = Prim("bad")
    /\ last.err = "ValidationError"
    /\ Len(last.log) = 1
    /\ getattr(state, "mode") = Prim("1")
    /\ getattr(state, "limit") = Prim("0")

\* "limit" rejected: "layers", after it in the same priority group, was
\* sent a new item 0 and keeps the old one.
C19_SameGroupWitness ==
    /\ last.op = "update_state_from_dict"
    /\ last.changes.keys = <<"limit", "layers">>
    /\ last.changes.m["limit"] = Prim("bad")
    /\ last.changes.m["layers"].k = "idict"
    /\ 0 \in DOMAIN last.changes.m["layers"].im
    /\ Len(getattr(last.before, "layers").items) > 0
    /\ last.err = "ValidationError"
    /\ state = last.before

\* "limit" rejected: "sub", of priority 0, was not assigned.
C19_LowerGroupWitness ==
    /\ last.op = "update_state_from_dict"
    /\ last.changes.keys = <<"sub", "limit">>
    /\ last.changes.m["limit"] = Prim("bad")
    /\ last.changes.m["sub"] # Sentinel
    /\ last.err = "ValidationError"
    /\ state = last.before

(***************************************************************************)
(* Properties of the tracked slot (SpecSync).                              *)
(***************************************************************************)
\* C13: assigning None to the slot passes validation and set completes
\* without an error, the slot holding None.
C13_NoneAccepted ==
    (sync.op = "set" /\ sync.arg = None) =>
        /\ sync.err = "none"
        /\ sync.slot = None

\* C14: assigning a value that is neither None nor a State raises
\* TraitError; the slot keeps its value and no callback is registered.
C14_NonStateRejected ==
    (sync.op = "set" /\ sync.arg # None /\ sync.arg.k # "ref") =>
        /\ sync.err = "TraitError"
        /\ sync.slot = sync.before
        /\ sync.callbacks = sync.cbefore

\* The slot held a State when a non-State was assigned.
C14_Witness ==
    /\ sync.op = "set"
    /\ sync.arg = Prim("5")
    /\ sync.before = Ref(1)
    /\ sync.slot = Ref(1)
    /\ sync.err = "TraitError"

C17_RegisteredOnce ==
    /\ \A i \in Objects : sync.callbacks[i] <= 1
    /\ (sync.op = "mutate" /\ sync.arg.id \in sync.assigned) => Len(sync.notes) = 1

\* C20: after the slot went from a State S1 to another State S2, a change
\* of S1 still notifies the host, and the notification carries S2, the
\* slot's value, not S1.
C20_StaleCallbackCarriesCurrent ==
    (/\ sync.op = "mutate"
     /\ sync.arg.id \in sync.assigned
     /\ sync.slot.k = "ref"
     /\ sync.slot # sync.arg) =>
        /\ sync.notes # <<>>
        /\ \A c \in 1..Len(sync.notes) :
              /\ sync.notes[c].value = sync.slot
              /\ sync.notes[c].new = sync.slot
              /\ sync.notes[c].value # sync.arg

\* The slot held object 1, then object 2; object 1 was changed.
C20_Witness ==
    /\ sync.op = "mutate"
    /\ sync.arg = Ref(1)
    /\ sync.assigned = {1, 2}
    /\ sync.slot = Ref(2)
    /\ sync.callbacks[1] = 1
    /\ sync.notes = <<on_state_change(Ref(2))>>

====
